---------------------------- MODULE Spec2Model ----------------------------
(***************************************************************************)
(* A model of CalcConc (src/src/thermo/concentrations/CalcConc.c): the     *)
(* trust-region solver of the dual equilibrium problem, its initial guess, *)
(* the perturbed restarts, the dogleg search direction, rho, and the       *)
(* buffers the invocation allocates and frees.                             *)
(*                                                                         *)
(* A C double is modelled as a fixed-point number: the integer n stands    *)
(* for n / FOne.  Three values outside the finite range stand for the IEEE *)
(* values +inf, -inf and NaN, with their arithmetic and their comparisons  *)
(* (every comparison with NaN is false).  Every product and quotient is    *)
(* rounded to the grid, as every double operation is rounded.              *)
(***************************************************************************)
EXTENDS Integers, Sequences, FiniteSets, TLC

(***************************************************************************)
(* double: representation                                                  *)
(***************************************************************************)
FOne == 2^4

PInf == 1000000000

NInf == -1000000000

NaN == 2000000000

IsNaN(a) == a = NaN

IsFin(a) == a > NInf /\ a < PInf

Abs(n) == IF n < 0 THEN -n ELSE n

Sgn(a) == IF a > 0 THEN 1 ELSE IF a < 0 THEN -1 ELSE 0

\* n / d rounded to the nearest integer, halves to the even one (d # 0)
RDiv(n, d) ==
    LET s == IF (n >= 0) = (d > 0) THEN 1 ELSE -1
        q == Abs(n) \div Abs(d)
        r == Abs(n) - q * Abs(d)
        up == 2 * r > Abs(d) \/ (2 * r = Abs(d) /\ q % 2 = 1)
    IN  s * (IF up THEN q + 1 ELSE q)

RECURSIVE SqrtIter(_, _, _)
\* the integer r with r*r <= n < (r+1)*(r+1), searched in lo..hi-1
SqrtIter(n, lo, hi) ==
    IF hi - lo <= 1 THEN lo
    ELSE LET mid == (lo + hi) \div 2
         IN  IF mid * mid <= n THEN SqrtIter(n, mid, hi)
                               ELSE SqrtIter(n, lo, mid)

ISqrt(n) == SqrtIter(n, 0, 46341)

FNeg(a) ==
    IF IsNaN(a) THEN NaN
    ELSE IF a = PInf THEN NInf
    ELSE IF a = NInf THEN PInf
    ELSE -a

FAdd(a, b) ==
    IF IsNaN(a) \/ IsNaN(b) THEN NaN
    ELSE IF ~IsFin(a) THEN (IF ~IsFin(b) /\ a # b THEN NaN ELSE a)
    ELSE IF ~IsFin(b) THEN b
    ELSE a + b

FSub(a, b) == FAdd(a, FNeg(b))

\* double * double
FMul(a, b) ==
    IF IsNaN(a) \/ IsNaN(b) THEN NaN
    ELSE IF ~IsFin(a) \/ ~IsFin(b)
         THEN (IF a = 0 \/ b = 0 THEN NaN
               ELSE IF Sgn(a) * Sgn(b) > 0 THEN PInf ELSE NInf)
    ELSE RDiv(a * b, FOne)

\* double * (double) int: exact
IMul(a, k) ==
    IF IsNaN(a) THEN NaN
    ELSE IF ~IsFin(a)
         THEN (IF k = 0 THEN NaN ELSE IF k > 0 THEN a ELSE FNeg(a))
    ELSE a * k

\* double / double
FDiv(a, b) ==
    IF IsNaN(a) \/ IsNaN(b) THEN NaN
    ELSE IF ~IsFin(a)
         THEN (IF ~IsFin(b) THEN NaN ELSE IF b >= 0 THEN a ELSE FNeg(a))
    ELSE IF ~IsFin(b) THEN 0
    ELSE IF b = 0
         THEN (IF a = 0 THEN NaN ELSE IF a > 0 THEN PInf ELSE NInf)
    ELSE RDiv(a * FOne, b)

\* double / (double) int
IDiv(a, k) ==
    IF IsNaN(a) \/ ~IsFin(a) THEN a
    ELSE RDiv(a, k)

\* sqrt
FSqrt(a) ==
    IF IsNaN(a) THEN NaN
    ELSE IF a = PInf THEN PInf
    ELSE IF a < 0 THEN NaN
    ELSE ISqrt(a * FOne)

\* a < b, a <= b, a > b, a >= b on doubles
FLt(a, b) == ~IsNaN(a) /\ ~IsNaN(b) /\ a < b

FLe(a, b) == ~IsNaN(a) /\ ~IsNaN(b) /\ a <= b

FGt(a, b) == FLt(b, a)

FGe(a, b) == FLe(b, a)

\* fabs
fabs(a) ==
    IF IsNaN(a) THEN NaN
    ELSE IF ~IsFin(a) THEN PInf
    ELSE Abs(a)

\* min2(a, b) of utils: a < b ? a : b
min2(a, b) == IF FLt(a, b) THEN a ELSE b

(***************************************************************************)
(* exp and log on the grid: ExpTable[k] is exp((ExpMin + k - 1) / FOne)    *)
(* in units of 1 / FOne, rounded.  Below ExpMin exp underflows to 0.       *)
(***************************************************************************)
ExpMin == 0 - 55

ExpTable ==
  << 1, 1, 1, 1, 1, 1, 1, 1, 1, 1, 1, 1, 1, 1, 1, 1, 1, 1, 2, 2, 2, 2,
     2, 2, 2, 2, 3, 3, 3, 3, 3, 4, 4, 4, 4, 5, 5, 5, 6, 6, 6, 7, 7, 8,
     8, 9, 9, 10, 10, 11, 12, 12, 13, 14, 15, 16, 17, 18, 19, 21, 22,
     23, 25, 26, 28, 30, 32, 34, 36, 38, 41, 43, 46, 49, 52, 56, 59, 63,
     67, 72, 76, 81, 86, 92, 98, 104, 111, 118, 126, 134, 143, 152, 162,
     172, 183, 195, 207, 221, 235, 250, 266, 284, 302, 321, 342, 364,
     388, 413, 439, 468, 498, 530, 564, 600, 639, 680, 724, 771, 821,
     874, 930, 990, 1054, 1122, 1194, 1271, 1353, 1440, 1533, 1632,
     1737, 1849, 1969, 2096, 2231, 2375 >>

ExpMax == ExpMin + Len(ExpTable) - 1

\* exp(a)
Exp(a) ==
    IF IsNaN(a) THEN NaN
    ELSE IF a = PInf \/ a > ExpMax THEN PInf
    ELSE IF a < ExpMin THEN 0
    ELSE ExpTable[a - ExpMin + 1]

\* log(v): the largest grid point whose exp is at most v
Log(v) ==
    IF IsNaN(v) \/ v < 0 THEN NaN
    ELSE IF v = 0 THEN NInf
    ELSE IF v = PInf THEN PInf
    ELSE LET S == {n \in ExpMin..ExpMax : ExpTable[n - ExpMin + 1] <= v}
         IN  CHOOSE n \in S : \A m \in S : m <= n

(***************************************************************************)
(* utils: vectors are sequences, matrices sequences of rows                *)
(***************************************************************************)
RECURSIVE SumTo(_, _)
\* f[1] + ... + f[n] on doubles
SumTo(f, n) == IF n = 0 THEN 0 ELSE FAdd(SumTo(f, n - 1), f[n])

\* sum(a, n)
sum(a) == SumTo(a, Len(a))

\* dot(a, b, n)
dot(a, b) == SumTo([k \in 1..Len(a) |-> FMul(a[k], b[k])], Len(a))

\* didot(a, b, n): a of doubles, b of ints
didot(a, b) == SumTo([k \in 1..Len(a) |-> IMul(a[k], b[k])], Len(a))

RECURSIVE ISumTo(_, _)
ISumTo(f, n) == IF n = 0 THEN 0 ELSE ISumTo(f, n - 1) + f[n]

\* sumint(a, n)
sumint(a) == ISumTo(a, Len(a))

\* norm(a, n) = sqrt(dot(a, a, n))
norm(a) == FSqrt(dot(a, a))

\* MatrixVectorMult(c, M, v, n): c = M v
MatrixVectorMult(M, v) == [m \in 1..Len(M) |-> dot(M[m], v)]

\* IntTranspose(AT, A, numSS, numTotal)
IntTranspose(A) ==
    [j \in 1..Len(A[1]) |-> [i \in 1..Len(A) |-> A[i][j]]]

\* FindNonZero(a, n): the index of the first non-zero entry
FindNonZero(a) ==
    CHOOSE j \in 1..Len(a) : a[j] # 0 /\ \A k \in 1..(j - 1) : a[k] = 0

(***************************************************************************)
(* constants.h and the bounds of the model                                 *)
(***************************************************************************)
\* the log-ceiling of the parameter map
MAXLOGX == 3 * FOne

\* the tolerance of the "step hits the boundary" test: one grid step
NUM_PRECISION == 1

\* exit code of a fatal overflow
ERR_OVERFLOW == "ERR_OVERFLOW"

MaxItersBound == 3

MaxNoStepBound == 2

MaxTrialBound == 3

\* delta keeps DeltaFrac more fractional digits than the other doubles, so
\* that delta /= 4.0 does not underflow within MaxIters iterations
DeltaFrac == 4^(MaxItersBound + 1)

\* a delta on the grid of the other doubles
ToGrid(d) == IF IsFin(d) THEN RDiv(d, DeltaFrac) ELSE d

(***************************************************************************)
(* malloc and free: a buffer is <<name, 0>>, its k-th row <<name, k>>      *)
(***************************************************************************)
Malloc(b) == <<"malloc", b>>

Free(b) == <<"free", b>>

MallocRows(name, n) == [k \in 1..n |-> Malloc(<<name, k>>)]

FreeRows(name, n) == [k \in 1..n |-> Free(<<name, k>>)]

\* every buffer an invocation with numSS monomers and numTotal complexes names
Bufs(numSS, numTotal) ==
    {<<"AT", k>> : k \in 0..numTotal}
      \cup {<<nm, k>> : nm \in {"Hes", "HesCopy"}, k \in 0..numSS}
      \cup {<<nm, 0>> : nm \in {"AbsTol", "Grad", "lambda", "p", "Avec", "pB",
                                "CholDiag", "HGrad", "pU", "newlambda", "newx",
                                "Hp", "dummyx", "perturbed"}}

RECURSIVE ApplyMem(_, _, _)
\* the heap after the events ev[k..]: h.st[b] is "none" (never allocated),
\* "live" or "freed"; h.err collects frees of a buffer that is not live and
\* allocations over a live buffer
ApplyMem(h, ev, k) ==
    IF k > Len(ev) THEN h
    ELSE LET op == ev[k][1]
             b == ev[k][2]
             bad == IF op = "free" THEN h.st[b] # "live" ELSE h.st[b] = "live"
             nh == [st |-> [h.st EXCEPT ![b] = IF op = "free" THEN "freed" ELSE "live"],
                    err |-> IF bad THEN h.err \cup {ev[k]} ELSE h.err]
         IN  ApplyMem(nh, ev, k + 1)

(***************************************************************************)
(* getx, getGrad, getHes, CheckTol                                         *)
(***************************************************************************)
\* logx of complex j
LogX(lam, G, AT, j) == FAdd(FNeg(G[j]), didot(lam, AT[j]))

\* the first complex whose logx exceeds MAXLOGX, 0 when there is none
FirstOverflow(lam, G, AT) ==
    LET bad == {j \in 1..Len(AT) : FGt(LogX(lam, G, AT, j), MAXLOGX)}
    IN  IF bad = {} THEN 0 ELSE CHOOSE j \in bad : \A k \in bad : j <= k

\* getx: ok = 1 and x filled, or ok = 0 and x written up to the overflow
getx(xold, lam, G, AT) ==
    LET bad == FirstOverflow(lam, G, AT)
    IN  [ok |-> IF bad = 0 THEN 1 ELSE 0,
         x  |-> [j \in 1..Len(AT) |->
                   IF bad = 0 \/ j < bad THEN Exp(LogX(lam, G, AT, j))
                   ELSE xold[j]]]

\* getGrad
getGrad(x0, xx, A) == [i \in 1..Len(A) |-> FAdd(FNeg(x0[i]), didot(xx, A[i]))]

\* getHes: Hes[m][n] = dot(x, Avec) with Avec[j] = A[m][j] * A[n][j]
getHes(xx, A) ==
    [m \in 1..Len(A) |-> [n \in 1..Len(A) |->
        dot(xx, [j \in 1..Len(xx) |-> A[m][j] * A[n][j] * FOne])]]

getHesMem == <<Malloc(<<"Avec", 0>>), Free(<<"Avec", 0>>)>>

\* CheckTol: 1 if every entry of the gradient satisfies the tolerance
CheckTol(G_, AbsTol_) ==
    IF \E i \in 1..Len(G_) : FGt(fabs(G_[i]), AbsTol_[i]) THEN 0 ELSE 1

(***************************************************************************)
(* choleskyDecomposition and choleskySolve (utils): in place on the lower  *)
(* triangle, H = L L^T; failure when a pivot is not positive               *)
(***************************************************************************)
RECURSIVE CholSum(_, _, _, _), CholL(_, _, _)
\* H[i][j] - sum over k < kmax+1 of L[i][k] * L[j][k]
CholSum(H, i, j, kmax) ==
    IF kmax = 0 THEN H[i][j]
    ELSE FSub(CholSum(H, i, j, kmax - 1),
              FMul(CholL(H, i, kmax), CholL(H, j, kmax)))

\* the entry L[i][j], i >= j
CholL(H, i, j) ==
    IF i = j THEN FSqrt(CholSum(H, j, j, j - 1))
    ELSE FDiv(CholSum(H, i, j, j - 1), CholL(H, j, j))

\* choleskyDecomposition: 1 on success, 0 when a pivot is <= 0
choleskyDecomposition(H) ==
    IF \E j \in 1..Len(H) : FLe(CholSum(H, j, j, j - 1), 0) THEN 0 ELSE 1

RECURSIVE CholFwd(_, _, _, _), CholFwdSum(_, _, _, _, _)
CholFwdSum(H, b, i, k, n) ==
    IF k = 0 THEN b[i]
    ELSE FSub(CholFwdSum(H, b, i, k - 1, n),
              FMul(CholL(H, i, k), CholFwd(H, b, k, n)))

\* forward substitution: y with L y = b
CholFwd(H, b, i, n) == FDiv(CholFwdSum(H, b, i, i - 1, n), CholL(H, i, i))

RECURSIVE CholBack(_, _, _, _), CholBackSum(_, _, _, _, _)
CholBackSum(H, b, i, k, n) ==
    IF k = i THEN CholFwd(H, b, i, n)
    ELSE FSub(CholBackSum(H, b, i, k - 1, n),
              FMul(CholL(H, k, i), CholBack(H, b, k, n)))

\* back substitution: x with L^T x = y
CholBack(H, b, i, n) == FDiv(CholBackSum(H, b, i, n, n), CholL(H, i, i))

\* choleskySolve(L, n, b, x): x with H x = b
choleskySolve(H, b) == [i \in 1..Len(H) |-> CholBack(H, b, i, Len(H))]

(***************************************************************************)
(* getSearchDir: [code, p, mem]                                            *)
(***************************************************************************)
\* p = s * v
Scale(s, v) == [i \in 1..Len(v) |-> FMul(s, v[i])]

\* p = pU + alpha * (pB - pU)
Dogleg(pU, pB, alpha) ==
    [i \in 1..Len(pU) |-> FAdd(pU[i], FMul(alpha, FSub(pB[i], pU[i])))]

\* allocations and frees of the Newton part, and of the rest of each path
NewtonMem(n) ==
    <<Malloc(<<"pB", 0>>), Malloc(<<"CholDiag", 0>>), Malloc(<<"HesCopy", 0>>)>>
      \o MallocRows("HesCopy", n)
      \o <<Free(<<"CholDiag", 0>>)>> \o FreeRows("HesCopy", n)
      \o <<Free(<<"HesCopy", 0>>)>>

CauchyMem ==
    <<Malloc(<<"HGrad", 0>>), Malloc(<<"pU", 0>>), Free(<<"HGrad", 0>>),
      Free(<<"pU", 0>>), Free(<<"pB", 0>>)>>

\* getSearchDir taking a root only when it lies strictly between 0 and 1
getSearchDir_ExclusiveRoots(Grad_, Hes_, delta_) ==
    LET n == Len(Grad_)
        d == ToGrid(delta_)
        delta2 == FMul(d, d)
        CholSuccess == choleskyDecomposition(Hes_)
        \* Newton step is -H^{-1} Grad
        pB == [i \in 1..n |-> FNeg(choleskySolve(Hes_, Grad_)[i])]
        pB2 == IF CholSuccess = 1 THEN dot(pB, pB) ELSE 0
        \* Cauchy step
        HGrad == MatrixVectorMult(Hes_, Grad_)
        mag1 == dot(Grad_, Grad_)
        mag2 == dot(Grad_, HGrad)
        pUcoeff == FDiv(mag1, mag2)
        pU == [i \in 1..n |-> FMul(pUcoeff, FNeg(Grad_[i]))]
        pU2 == dot(pU, pU)
        tau == FSqrt(FDiv(delta2, pU2))
        \* dogleg
        pBpU == dot(pB, pU)
        a == FSub(FAdd(pB2, pU2), IMul(pBpU, 2))
        b == IMul(FSub(pBpU, pU2), 2)
        c == FSub(pU2, delta2)
        sgnb == IF FLt(b, 0) THEN -1 ELSE 1
        q == FNeg(IDiv(FAdd(b, IMul(FSqrt(FSub(FMul(b, b), FMul(IMul(a, 4), c))),
                                    sgnb)), 2))
        x1 == FDiv(q, a)
        x2 == FDiv(c, q)
        mem == NewtonMem(n)
    IN  IF CholSuccess = 1 /\ FLe(pB2, delta2)
          THEN [code |-> 1, p |-> pB, mem |-> mem \o <<Free(<<"pB", 0>>)>>]
        ELSE IF FGe(pU2, delta2)
          THEN [code |-> IF CholSuccess # 1 THEN 5 ELSE 2,
                p |-> Scale(tau, pU), mem |-> mem \o CauchyMem]
        ELSE IF CholSuccess # 1
          THEN [code |-> 4, p |-> pU, mem |-> mem \o CauchyMem]
        ELSE IF FGt(x2, 0) /\ FLt(x2, FOne)
          THEN [code |-> 3, p |-> Dogleg(pU, pB, x2), mem |-> mem \o CauchyMem]
        ELSE IF FGt(x1, 0) /\ FLt(x1, FOne)
          THEN [code |-> 3, p |-> Dogleg(pU, pB, x1), mem |-> mem \o CauchyMem]
        ELSE [code |-> 6, p |-> pU, mem |-> mem \o CauchyMem]

\* getSearchDir taking the Newton step whenever the decomposition succeeds,
\* whatever delta is
getSearchDir_NoTrustRegion(Grad_, Hes_, delta_) ==
    IF choleskyDecomposition(Hes_) = 1
      THEN [code |-> 1,
            p |-> [i \in 1..Len(Grad_) |-> FNeg(choleskySolve(Hes_, Grad_)[i])],
            mem |-> NewtonMem(Len(Grad_)) \o <<Free(<<"pB", 0>>)>>]
      ELSE [code |-> 4,
            p |-> Scale(FDiv(dot(Grad_, Grad_),
                             dot(Grad_, MatrixVectorMult(Hes_, Grad_))),
                        [i \in 1..Len(Grad_) |-> FNeg(Grad_[i])]),
            mem |-> NewtonMem(Len(Grad_)) \o CauchyMem]

getSearchDir(Grad_, Hes_, delta_) ==
    LET n == Len(Grad_)
        d == ToGrid(delta_)
        delta2 == FMul(d, d)
        CholSuccess == choleskyDecomposition(Hes_)
        \* Newton step is -H^{-1} Grad
        pB == [i \in 1..n |-> FNeg(choleskySolve(Hes_, Grad_)[i])]
        pB2 == IF CholSuccess = 1 THEN dot(pB, pB) ELSE 0
        \* Cauchy step
        HGrad == MatrixVectorMult(Hes_, Grad_)
        mag1 == dot(Grad_, Grad_)
        mag2 == dot(Grad_, HGrad)
        pUcoeff == FDiv(mag1, mag2)
        pU == [i \in 1..n |-> FMul(pUcoeff, FNeg(Grad_[i]))]
        pU2 == dot(pU, pU)
        tau == FSqrt(FDiv(delta2, pU2))
        \* dogleg
        pBpU == dot(pB, pU)
        a == FSub(FAdd(pB2, pU2), IMul(pBpU, 2))
        b == IMul(FSub(pBpU, pU2), 2)
        c == FSub(pU2, delta2)
        sgnb == IF FLt(b, 0) THEN -1 ELSE 1
        q == FNeg(IDiv(FAdd(b, IMul(FSqrt(FSub(FMul(b, b), FMul(IMul(a, 4), c))),
                                    sgnb)), 2))
        x1 == FDiv(q, a)
        x2 == FDiv(c, q)
        mem == NewtonMem(n)
    IN  IF CholSuccess = 1 /\ FLe(pB2, delta2)
          THEN [code |-> 1, p |-> pB, mem |-> mem \o <<Free(<<"pB", 0>>)>>]
        ELSE IF FGe(pU2, delta2)
          THEN [code |-> IF CholSuccess # 1 THEN 5 ELSE 2,
                p |-> Scale(tau, pU), mem |-> mem \o CauchyMem]
        ELSE IF CholSuccess # 1
          THEN [code |-> 4, p |-> pU, mem |-> mem \o CauchyMem]
        ELSE IF FGe(x2, 0) /\ FLe(x2, FOne)
          THEN [code |-> 3, p |-> Dogleg(pU, pB, x2), mem |-> mem \o CauchyMem]
        ELSE IF FGe(x1, 0) /\ FLe(x1, FOne)
          THEN [code |-> 3, p |-> Dogleg(pU, pB, x1), mem |-> mem \o CauchyMem]
        ELSE [code |-> 6, p |-> pU, mem |-> mem \o CauchyMem]

\* the quantities getSearchDir decides on (lines 391-513): delta2, the
\* result of the Cholesky decomposition, the Newton step pB, the Cauchy step
\* pU, their squared lengths, and the roots x1 = q / a and x2 = c / q
SearchDirTerms(Grad_, Hes_, delta_) ==
    LET n == Len(Grad_)
        d == ToGrid(delta_)
        delta2 == FMul(d, d)
        CholSuccess == choleskyDecomposition(Hes_)
        pB == [i \in 1..n |-> FNeg(choleskySolve(Hes_, Grad_)[i])]
        pB2 == IF CholSuccess = 1 THEN dot(pB, pB) ELSE 0
        pUcoeff == FDiv(dot(Grad_, Grad_),
                        dot(Grad_, MatrixVectorMult(Hes_, Grad_)))
        pU == [i \in 1..n |-> FMul(pUcoeff, FNeg(Grad_[i]))]
        pU2 == dot(pU, pU)
        pBpU == dot(pB, pU)
        a == FSub(FAdd(pB2, pU2), IMul(pBpU, 2))
        b == IMul(FSub(pBpU, pU2), 2)
        c == FSub(pU2, delta2)
        sgnb == IF FLt(b, 0) THEN -1 ELSE 1
        q == FNeg(IDiv(FAdd(b, IMul(FSqrt(FSub(FMul(b, b), FMul(IMul(a, 4), c))),
                                    sgnb)), 2))
    IN  [delta2 |-> delta2, CholSuccess |-> CholSuccess, pB |-> pB,
         pB2 |-> pB2, pU |-> pU, pU2 |-> pU2,
         x1 |-> IF CholSuccess = 1 THEN FDiv(q, a) ELSE NaN,
         x2 |-> IF CholSuccess = 1 THEN FDiv(c, q) ELSE NaN]

(***************************************************************************)
(* getRho: [rho, overflow]                                                 *)
(***************************************************************************)
getRhoMem ==
    <<Malloc(<<"newlambda", 0>>), Malloc(<<"newx", 0>>), Malloc(<<"Hp", 0>>),
      Free(<<"newlambda", 0>>), Free(<<"newx", 0>>), Free(<<"Hp", 0>>)>>

\* getRho taking an overflowing trial point for a perfect step
getRho_OverflowAccepted(lam, p_, Grad_, x_, Hes_, x0, G, AT) ==
    IF getx(x_, [i \in 1..Len(lam) |-> FAdd(lam[i], p_[i])], G, AT).ok = 1
      THEN [rho |-> FOne, overflow |-> FALSE]
      ELSE [rho |-> FOne, overflow |-> TRUE]

getRho(lam, p_, Grad_, x_, Hes_, x0, G, AT) ==
    LET negh == FSub(sum(x_), dot(lam, x0))
        newlambda == [i \in 1..Len(lam) |-> FAdd(lam[i], p_[i])]
        r == getx(x_, newlambda, G, AT)
        NewNegh == FSub(sum(r.x), dot(newlambda, x0))
        Hp == MatrixVectorMult(Hes_, p_)
        pHp == dot(p_, Hp)
    IN  IF r.ok = 1
          THEN [rho |-> FDiv(FSub(negh, NewNegh),
                             FSub(FNeg(dot(Grad_, p_)), IDiv(pHp, 2))),
                overflow |-> FALSE]
          ELSE [rho |-> -FOne, overflow |-> TRUE]

(***************************************************************************)
(* The inputs of an invocation                                             *)
(***************************************************************************)
\* (A, G, x0): stoichiometry, free energies, total monomer fractions
Systems ==
    { [A |-> <<<<1>>>>, G |-> <<0>>, x0 |-> <<FOne>>],
      [A |-> <<<<1>>>>, G |-> <<0>>, x0 |-> <<60 * FOne>>],
      [A |-> <<<<1, 2>>>>, G |-> <<0, -FOne>>, x0 |-> <<2 * FOne>>],
      [A |-> <<<<1, 2>>>>, G |-> <<0, 2 * FOne>>, x0 |-> <<20 * FOne>>],
      [A |-> <<<<1, 0, 1>>, <<0, 1, 1>>>>, G |-> <<0, FOne, -2 * FOne>>,
       x0 |-> <<FOne, 4 * FOne>>],
      [A |-> <<<<1, 0, 0>>, <<0, 1, 2>>>>, G |-> <<0, 0, -FOne>>,
       x0 |-> <<FOne, 2 * FOne>>],
      [A |-> <<<<1, 1>>, <<1, 1>>>>, G |-> <<0, 0>>, x0 |-> <<FOne, FOne>>],
      [A |-> <<<<1, 0>>, <<1, 1>>>>, G |-> <<6 * FOne, 6 * FOne>>,
       x0 |-> <<FOne, FOne>>],
      [A |-> <<<<2>>>>, G |-> <<0>>, x0 |-> <<2 * FOne>>],
      [A |-> <<<<1, 2>>>>, G |-> <<0, 3>>, x0 |-> <<2 * FOne>>] }

\* (deltaBar, eta, PerturbScale, seed)
Tunings ==
    { [deltaBar |-> 4 * FOne, eta |-> FOne \div 8, PerturbScale |-> FOne, seed |-> 7],
      [deltaBar |-> FOne \div 4, eta |-> FOne \div 8, PerturbScale |-> 4 * FOne, seed |-> 0],
      [deltaBar |-> 8 * FOne, eta |-> -2 * FOne, PerturbScale |-> FOne, seed |-> 0] }

\* tol, kT, MolesWaterPerLiter
Tol == FOne \div 8

KT == (FOne * 5) \div 8

MolesWater == 55 * FOne

Inputs ==
    { [A |-> s.A, G |-> s.G, x0 |-> s.x0, numSS |-> Len(s.A),
       numTotal |-> Len(s.G), MaxIters |-> mi, tol |-> Tol,
       deltaBar |-> t.deltaBar, eta |-> t.eta, kT |-> KT, MaxNoStep |-> mn,
       MaxTrial |-> mt, PerturbScale |-> t.PerturbScale,
       MolesWaterPerLiter |-> MolesWater, seed |-> t.seed] :
      s \in Systems, t \in Tunings, mi \in 1..MaxItersBound,
      mn \in 1..MaxNoStepBound, mt \in 1..MaxTrialBound }

\* what a variable holds before its first assignment
Indeterminate == {0, 5}

\* genrand_real1(): a real in [0, 1]
Uniform == {0, FOne}

\* GetRandSeed(seed): the seed, or a clock-derived seed if it is 0
GetRandSeed(seed) == IF seed # 0 THEN {seed} ELSE {0, 1}

(***************************************************************************)
(* The state of an invocation                                              *)
(***************************************************************************)
VARIABLES
    inp,        \* the arguments
    pc,         \* "outer": at the test of the trial loop; "perturb": in the
                \* loop of PerturbLambda; "inner": at the test of the
                \* trust-region loop; "returned"; "exited"
    x,          \* the caller's output array
    AbsTol, Grad, lambda, p, Hes, delta, rho,
    iters, nNoStep, nTrial, RunStats, rand_seed, FreeEnergy,
    PerturbScale,   \* PerturbLambda's own (halved) scale
    heap,       \* the buffers: [st, err]
    ret,        \* CalcConc's return value, -1 before it returns
    exitCode,   \* the code passed to exit(), "" before
    seededAt,   \* the values of nTrial at which init_genrand was called
    perturbedAt,\* the values of nTrial at which PerturbLambda was called
    drawsAt,    \* the values of nTrial at which genrand_real1 was called
    obs,        \* the last trust-region iteration: what getSearchDir and
                \* getRho returned and what the driver did
    assigned,   \* the locals, among those declared without a value, that
                \* have been assigned since
    innerSteps, \* the trust-region iterations begun since entry
    decisions   \* the accept (TRUE) / reject (FALSE) decisions of the
                \* iterations of the current trial, in order

vars == <<inp, pc, x, AbsTol, Grad, lambda, p, Hes, delta, rho, iters, nNoStep,
          nTrial, RunStats, rand_seed, FreeEnergy, PerturbScale, heap, ret,
          exitCode, seededAt, perturbedAt, drawsAt, obs, assigned, innerSteps,
          decisions>>

AT == IntTranspose(inp.A)

\* a vector of n copies of v
Const(n, v) == [i \in 1..n |-> v]

\* the allocations at entry (lines 93-105)
EntryMem(numSS, numTotal) ==
    <<Malloc(<<"AT", 0>>)>> \o MallocRows("AT", numTotal)
      \o <<Malloc(<<"Hes", 0>>)>> \o MallocRows("Hes", numSS)
      \o <<Malloc(<<"AbsTol", 0>>), Malloc(<<"Grad", 0>>),
           Malloc(<<"lambda", 0>>), Malloc(<<"p", 0>>)>>

\* the frees before the return without free(p)
ReturnMem_LeakP(numSS, numTotal) ==
    FreeRows("AT", numTotal) \o FreeRows("Hes", numSS)
      \o <<Free(<<"AbsTol", 0>>), Free(<<"AT", 0>>), Free(<<"Hes", 0>>),
           Free(<<"Grad", 0>>), Free(<<"lambda", 0>>)>>

\* the frees before the return (lines 214-225)
ReturnMem(numSS, numTotal) ==
    FreeRows("AT", numTotal) \o FreeRows("Hes", numSS)
      \o <<Free(<<"AbsTol", 0>>), Free(<<"AT", 0>>), Free(<<"Hes", 0>>),
           Free(<<"Grad", 0>>), Free(<<"p", 0>>), Free(<<"lambda", 0>>)>>

EmptyHeap(numSS, numTotal) ==
    [st |-> [b \in Bufs(numSS, numTotal) |-> "none"], err |-> {}]

\* CalcConc up to the first test of the trial loop (lines 90-118)
Init ==
    \E i \in Inputs, junk \in Indeterminate :
      /\ inp = i
      /\ pc = "outer"
      /\ iters = 0
      /\ heap = ApplyMem(EmptyHeap(i.numSS, i.numTotal),
                         EntryMem(i.numSS, i.numTotal), 1)
      /\ AbsTol = [k \in 1..i.numSS |-> FMul(i.tol, i.x0[k])]
      /\ nTrial = 0
      /\ Grad = [k \in 1..i.numSS |-> FAdd(FMul(i.tol, i.x0[k]), FOne)]
      /\ rand_seed = 0
      /\ x = Const(i.numTotal, junk)
      /\ lambda = Const(i.numSS, junk)
      /\ p = Const(i.numSS, junk)
      /\ Hes = Const(i.numSS, Const(i.numSS, junk))
      /\ delta = junk
      /\ rho = junk
      /\ nNoStep = junk
      /\ RunStats = Const(6, junk)
      /\ FreeEnergy = junk
      /\ PerturbScale = i.PerturbScale
      /\ ret = -1
      /\ exitCode = ""
      /\ seededAt = <<>>
      /\ perturbedAt = <<>>
      /\ drawsAt = <<>>
      /\ obs = [code |-> 0, overflow |-> FALSE, accepted |-> FALSE]
      /\ assigned = {}
      /\ innerSteps = 0
      /\ decisions = <<>>

(***************************************************************************)
(* getInitialGuess                                                         *)
(***************************************************************************)
\* Maximum mole fraction is ~3
MaxLogx == FOne

\* the value of the first complex taken without looking at the others
LambdaVal_First(G, AT_, j) == FDiv(FAdd(FOne, G[1]), sumint(AT_[1]) * FOne)

RECURSIVE LambdaVal(_, _, _)
\* the least (MaxLogx + G[j]) / sumint(AT[j]) over the complexes 1..j
LambdaVal(G, AT_, j) ==
    LET NewLambdaVal == FDiv(FAdd(MaxLogx, G[j]), sumint(AT_[j]) * FOne)
    IN  IF j = 1 THEN NewLambdaVal
        ELSE IF FLt(NewLambdaVal, LambdaVal(G, AT_, j - 1)) THEN NewLambdaVal
        ELSE LambdaVal(G, AT_, j - 1)

\* lines 256-268: every lambda[i] gets the same value
UniformGuess(G, AT_, numSS) == Const(numSS, LambdaVal(G, AT_, Len(AT_)))

\* line 271: perturb Lambda if desired
PerturbDesired(seed) == seed # 0

\* getInitialGuess without the override of the inert monomers
InertOverride_None(lam, x0, G, A) == lam

\* lines 276-281: a monomer whose row of A sums to 1 gets its known lambda
InertOverride(lam, x0, G, A) ==
    [i \in 1..Len(A) |->
        IF sumint(A[i]) = 1 THEN FAdd(Log(x0[i]), G[FindNonZero(A[i])])
        ELSE lam[i]]

(***************************************************************************)
(* PerturbLambda, one attempt                                              *)
(***************************************************************************)
PerturbMallocs == <<Malloc(<<"dummyx", 0>>), Malloc(<<"perturbed", 0>>)>>

PerturbFrees == <<Free(<<"dummyx", 0>>), Free(<<"perturbed", 0>>)>>

\* a perturbation that does not shrink with the scale
Perturbed_Unscaled(lam, scale, u) ==
    [i \in 1..Len(lam) |-> FAdd(lam[i], IMul(FSub(u[i], FOne \div 2), 8))]

\* line 648, with u the numbers genrand_real1 returned
Perturbed(lam, scale, u) ==
    [i \in 1..Len(lam) |->
        FAdd(lam[i], FMul(IMul(scale, 2), FSub(u[i], FOne \div 2)))]

(***************************************************************************)
(* CalcConc                                                                *)
(***************************************************************************)
\* line 119
OuterCond == CheckTol(Grad, AbsTol) = 0 /\ nTrial < inp.MaxTrial

\* the test of the trust-region loop letting one iteration too many through
InnerCond_OneMore ==
    iters <= inp.MaxIters /\ CheckTol(Grad, AbsTol) = 0 /\ nNoStep < inp.MaxNoStep

\* lines 152-153
InnerCond ==
    iters < inp.MaxIters /\ CheckTol(Grad, AbsTol) = 0 /\ nNoStep < inp.MaxNoStep

\* seeding at every restart
SeedNow_EveryRestart(n) == n >= 1

\* line 121
SeedNow(n) == n = 1

\* line 139
InitialDelta(deltaBar) == RDiv(99 * deltaBar * DeltaFrac, 100)

\* the update of delta shrinking by 2 instead of 4
AdjustDelta_ShrinkByTwo(rho_, p_, delta_, deltaBar) ==
    IF FLt(rho_, FOne \div 4) THEN IDiv(delta_, 2)
    ELSE IF FGt(rho_, (3 * FOne) \div 4)
              /\ FLt(fabs(FSub(IMul(norm(p_), DeltaFrac), delta_)),
                     NUM_PRECISION * DeltaFrac)
         THEN min2(IMul(delta_, 2), deltaBar * DeltaFrac)
    ELSE delta_

\* the update of delta without the cap at deltaBar
AdjustDelta_NoCap(rho_, p_, delta_, deltaBar) ==
    IF FLt(rho_, FOne \div 4) THEN IDiv(delta_, 4)
    ELSE IF FGt(rho_, (3 * FOne) \div 4)
              /\ FLt(fabs(FSub(IMul(norm(p_), DeltaFrac), delta_)),
                     NUM_PRECISION * DeltaFrac)
         THEN IMul(delta_, 2)
    ELSE delta_

\* lines 165-170
AdjustDelta(rho_, p_, delta_, deltaBar) ==
    IF FLt(rho_, FOne \div 4) THEN IDiv(delta_, 4)
    ELSE IF FGt(rho_, (3 * FOne) \div 4)
              /\ FLt(fabs(FSub(IMul(norm(p_), DeltaFrac), delta_)),
                     NUM_PRECISION * DeltaFrac)
         THEN min2(IMul(delta_, 2), deltaBar * DeltaFrac)
    ELSE delta_

\* the acceptance test on the magnitude of rho
Accept_AbsRho(rho_, eta) == FGt(fabs(rho_), eta)

\* every step accepted
Accept_Always(rho_, eta) == TRUE

\* line 171
Accept(rho_, eta) == FGt(rho_, eta)

\* the result of getx ignored
Fatal_Ignored(ok) == FALSE

\* lines 131 and 182: getx(...) == 0
Fatal(ok) == ok = 0

\* the reset of the counters leaving the last one alone
ResetStats_FiveOnly == [k \in 1..6 |-> IF k = 6 THEN RunStats[6] ELSE 0]

\* lines 144-149
ResetStats == Const(6, 0)

\* line 159: the counter of RunStats that a code of getSearchDir advances
\* (RunStats[code - 1] of the C array is the code-th entry here)
StatIndex(code) == code

\* a return value that always says converged
ReturnValue_AlwaysOne(n, MaxTrial) == 1

\* lines 228-233
ReturnValue(n, MaxTrial) == IF n = MaxTrial THEN 0 ELSE 1

\* lines 198-210
ComputeFreeEnergy(x_, x0, G, kT, MolesWaterPerLiter) ==
    LET ref == SumTo([i \in 1..Len(x0) |->
                        FMul(x0[i], FSub(FOne, Log(x0[i])))], Len(x0))
        sol == SumTo([j \in 1..Len(x_) |->
                        IF FGt(x_[j], 0)
                        THEN FMul(x_[j], FSub(FAdd(Log(x_[j]), G[j]), FOne))
                        ELSE 0], Len(x_))
    IN  FMul(FAdd(ref, sol), FMul(kT, MolesWaterPerLiter))

\* lines 128-149 after PerturbLambda: getInitialGuess overrides the inert
\* monomers of lam, then x, Grad and the counters of the trial are set
FinishGuess(lam) ==
    LET lam1 == InertOverride(lam, inp.x0, inp.G, inp.A)
        r == getx(x, lam1, inp.G, AT)
    IN  /\ lambda' = lam1
        /\ x' = r.x
        /\ IF Fatal(r.ok)
             THEN /\ pc' = "exited"
                  /\ exitCode' = ERR_OVERFLOW
                  /\ assigned' = assigned \cup {"lambda", "x"}
                  /\ UNCHANGED <<Grad, delta, iters, nNoStep, RunStats,
                                 decisions>>
             ELSE /\ pc' = "inner"
                  /\ exitCode' = exitCode
                  /\ Grad' = getGrad(inp.x0, r.x, inp.A)
                  /\ delta' = InitialDelta(inp.deltaBar)
                  /\ iters' = 0
                  /\ nNoStep' = 0
                  /\ RunStats' = ResetStats
                  /\ decisions' = <<>>
                  /\ assigned' = assigned \cup {"lambda", "x", "delta", "nNoStep",
                                                "RunStats"}

\* lines 119-149: a trial starts; with a non-zero rand_seed getInitialGuess
\* enters PerturbLambda
StartTrial ==
    /\ pc = "outer"
    /\ OuterCond
    /\ \E s \in (IF SeedNow(nTrial) THEN GetRandSeed(inp.seed) ELSE {rand_seed}) :
         /\ rand_seed' = s
         /\ seededAt' = IF SeedNow(nTrial) THEN Append(seededAt, nTrial)
                        ELSE seededAt
         /\ IF PerturbDesired(s)
              THEN /\ pc' = "perturb"
                   /\ lambda' = UniformGuess(inp.G, AT, inp.numSS)
                   /\ PerturbScale' = inp.PerturbScale
                   /\ perturbedAt' = Append(perturbedAt, nTrial)
                   /\ heap' = ApplyMem(heap, PerturbMallocs, 1)
                   /\ assigned' = assigned \cup {"lambda"}
                   /\ UNCHANGED <<x, Grad, delta, iters, nNoStep, RunStats,
                                  exitCode, decisions>>
              ELSE /\ FinishGuess(UniformGuess(inp.G, AT, inp.numSS))
                   /\ UNCHANGED <<PerturbScale, perturbedAt, heap>>
    /\ UNCHANGED <<inp, AbsTol, p, Hes, rho, nTrial, FreeEnergy, ret, drawsAt,
                   obs, innerSteps>>

\* lines 646-652, and once x is OK lines 655-660 and the rest of the trial's
\* start
PerturbLambda ==
    /\ pc = "perturb"
    /\ \E u \in [1..inp.numSS -> Uniform] :
         LET newlambda == Perturbed(lambda, PerturbScale, u)
             xOK == getx(Const(inp.numTotal, 0), newlambda, inp.G, AT).ok
         IN  /\ PerturbScale' = IDiv(PerturbScale, 2)
             /\ drawsAt' = Append(drawsAt, nTrial)
             /\ IF xOK = 0
                  THEN UNCHANGED <<pc, lambda, x, Grad, delta, iters, nNoStep,
                                   RunStats, exitCode, heap, assigned,
                                   decisions>>
                  ELSE /\ heap' = ApplyMem(heap, PerturbFrees, 1)
                       /\ FinishGuess(newlambda)
    /\ UNCHANGED <<inp, AbsTol, p, Hes, rho, nTrial, rand_seed, FreeEnergy, ret,
                   seededAt, perturbedAt, obs, innerSteps>>

\* lines 156-190: one iteration of the trust-region loop
InnerIter ==
    /\ pc = "inner"
    /\ InnerCond
    /\ \E H \in {getHes(x, inp.A)} :
       \E sd \in {getSearchDir(Grad, H, delta)} :
       \E r \in {getRho(lambda, sd.p, Grad, x, H, inp.x0, inp.G, AT)} :
       \E acc \in {Accept(r.rho, inp.eta)} :
       \E lam1 \in {IF acc THEN [i \in 1..inp.numSS |-> FAdd(lambda[i], sd.p[i])]
                    ELSE lambda} :
       \E gx \in {getx(x, lam1, inp.G, AT)} :
           /\ Hes' = H
           /\ p' = sd.p
           /\ RunStats' = [RunStats EXCEPT ![StatIndex(sd.code)] = @ + 1]
           /\ rho' = r.rho
           /\ heap' = ApplyMem(heap, getHesMem \o sd.mem \o getRhoMem, 1)
           /\ delta' = AdjustDelta(r.rho, sd.p, delta, inp.deltaBar)
           /\ lambda' = lam1
           /\ nNoStep' = IF acc THEN 0 ELSE nNoStep + 1
           /\ obs' = [code |-> sd.code, overflow |-> r.overflow, accepted |-> acc]
           /\ x' = gx.x
           /\ assigned' = assigned \cup {"Hes", "p", "rho"}
           /\ innerSteps' = innerSteps + 1
           /\ decisions' = Append(decisions, acc)
           /\ IF Fatal(gx.ok)
                THEN /\ pc' = "exited"
                     /\ exitCode' = ERR_OVERFLOW
                     /\ UNCHANGED <<Grad, iters>>
                ELSE /\ Grad' = getGrad(inp.x0, gx.x, inp.A)
                     /\ iters' = iters + 1
                     /\ UNCHANGED <<pc, exitCode>>
    /\ UNCHANGED <<inp, AbsTol, nTrial, rand_seed, FreeEnergy, PerturbScale, ret,
                   seededAt, perturbedAt, drawsAt>>

\* line 194: the trust-region loop is left and the trial ends
EndTrial ==
    /\ pc = "inner"
    /\ ~InnerCond
    /\ nTrial' = nTrial + 1
    /\ pc' = "outer"
    /\ UNCHANGED <<inp, x, AbsTol, Grad, lambda, p, Hes, delta, rho, iters,
                   nNoStep, RunStats, rand_seed, FreeEnergy, PerturbScale, heap,
                   ret, exitCode, seededAt, perturbedAt, drawsAt, obs, assigned,
                   innerSteps, decisions>>

\* lines 197-233: the trial loop is left
Return ==
    /\ pc = "outer"
    /\ ~OuterCond
    /\ FreeEnergy' = ComputeFreeEnergy(x, inp.x0, inp.G, inp.kT,
                                       inp.MolesWaterPerLiter)
    /\ heap' = ApplyMem(heap, ReturnMem(inp.numSS, inp.numTotal), 1)
    /\ ret' = ReturnValue(nTrial, inp.MaxTrial)
    /\ pc' = "returned"
    /\ assigned' = assigned \cup {"FreeEnergy"}
    /\ UNCHANGED <<inp, x, AbsTol, Grad, lambda, p, Hes, delta, rho, iters,
                   nNoStep, nTrial, RunStats, rand_seed, PerturbScale, exitCode,
                   seededAt, perturbedAt, drawsAt, obs, innerSteps, decisions>>

Next == StartTrial \/ PerturbLambda \/ InnerIter \/ EndTrial \/ Return

Spec == Init /\ [][Next]_vars

(***************************************************************************)
(* Properties                                                              *)
(***************************************************************************)
\* the trials begun so far: nTrial counts the trials that ended
TrialsBegun == nTrial + (IF pc \in {"perturb", "inner", "exited"} THEN 1 ELSE 0)

\* the gradient meets the tolerance
Converged == CheckTol(Grad, AbsTol) = 1

\* C1: whenever CalcConc returns 1, the gradient recomputed from the x it
\* wrote to the output, <x, A[i]> - x0[i], satisfies |Grad[i]| <= tol * x0[i]
\* for every monomer i, and it is the gradient CalcConc holds at exit.
C1_MassBalanceOnConverged ==
    (pc = "returned" /\ ret = 1) =>
        /\ Grad = getGrad(inp.x0, x, inp.A)
        /\ \A i \in 1..inp.numSS :
             FLe(fabs(getGrad(inp.x0, x, inp.A)[i]), FMul(inp.tol, inp.x0[i]))

\* a run that returned 1 after trust-region iterations in a restart trial
C1_Witness == pc = "returned" /\ ret = 1 /\ iters > 0 /\ nTrial >= 1

\* C2: CalcConc returns 0 only when all MaxTrial trials are exhausted and
\* the gradient does not meet the tolerance: a run whose gradient meets the
\* tolerance at exit, the MaxTrial-th trial's included, returns 1.
C2_FalseOnlyWhenNotConverged ==
    pc = "returned" =>
        /\ (ret = 0 => (nTrial = inp.MaxTrial /\ ~Converged))
        /\ (Converged => ret = 1)

\* C3: the driver is finite: at most MaxTrial trials are begun, iters <=
\* MaxIters and nNoStep <= MaxNoStep in every state, at most MaxTrial *
\* MaxIters iterations run in all, and the trust-region loop is left exactly
\* on convergence, iters = MaxIters or nNoStep = MaxNoStep.
C3_DriverIsFinite ==
    LET Leave == Converged \/ iters = inp.MaxIters \/ nNoStep = inp.MaxNoStep
    IN  /\ nTrial \in 0..inp.MaxTrial
        /\ TrialsBegun <= inp.MaxTrial
        /\ iters \in 0..inp.MaxIters
        /\ "nNoStep" \in assigned => nNoStep \in 0..inp.MaxNoStep
        /\ innerSteps <= inp.MaxTrial * inp.MaxIters
        /\ (pc = "outer" /\ nTrial > 0) => Leave
        /\ pc = "inner" => /\ (ENABLED EndTrial) <=> Leave
                           /\ Leave => ~ENABLED InnerIter

\* every trial ran MaxIters iterations and the trials are exhausted
C3_Witness ==
    /\ pc = "outer"
    /\ nTrial = inp.MaxTrial
    /\ inp.MaxTrial >= 2
    /\ inp.MaxIters >= 2
    /\ innerSteps = inp.MaxTrial * inp.MaxIters

\* C4: an overflow of getx after the initial guess of a trial, or after the
\* accept/reject decision of an iteration, ends the invocation with
\* exit(ERR_OVERFLOW): the driver never goes on from a lambda whose x
\* overflows, and after the exit nothing more runs, nothing is returned and
\* no free energy is computed.
C4_FatalOverflowAborts ==
    /\ (pc \in {"inner", "outer", "returned"} /\ "x" \in assigned) =>
           /\ FirstOverflow(lambda, inp.G, AT) = 0
           /\ exitCode = ""
    /\ pc = "exited" =>
           /\ FirstOverflow(lambda, inp.G, AT) # 0
           /\ exitCode = ERR_OVERFLOW
           /\ ret = -1
           /\ "FreeEnergy" \notin assigned
           /\ ~ENABLED Next

\* the exit after the initial guess of a restart trial
C4_Witness == pc = "exited" /\ nTrial >= 1 /\ exitCode = ERR_OVERFLOW

\* the trial point lambda + p of the iteration about to run overflows
TrialPointOverflows ==
    LET sd == getSearchDir(Grad, getHes(x, inp.A), delta)
    IN  FirstOverflow([i \in 1..inp.numSS |-> FAdd(lambda[i], sd.p[i])],
                      inp.G, AT) # 0

\* C5: with eta > 0, an iteration whose trial point x(lambda + p) overflows
\* gets rho = -1 from getRho and rejects the step: lambda and x are
\* unchanged, nNoStep is incremented, delta is divided by 4, and the loop
\* goes on instead of aborting.
C5_TrialOverflowRejects ==
    [][(pc = "inner" /\ InnerCond /\ inp.eta > 0 /\ TrialPointOverflows) =>
          /\ rho' = -FOne
          /\ obs'.overflow /\ ~obs'.accepted
          /\ lambda' = lambda
          /\ x' = x
          /\ nNoStep' = nNoStep + 1
          /\ delta' = IDiv(delta, 4)
          /\ iters' = iters + 1
          /\ pc' = "inner"
          /\ exitCode' = ""]_vars

\* an iteration whose trial point overflowed, with the loop going on
C5_Witness ==
    /\ pc = "inner"
    /\ inp.eta > 0
    /\ obs.overflow
    /\ ~obs.accepted
    /\ rho = -FOne
    /\ nNoStep >= 1

\* the buffers CalcConc allocates at entry
EntryBufs ==
    {<<"AT", k>> : k \in 0..inp.numTotal} \cup {<<"Hes", k>> : k \in 0..inp.numSS}
      \cup {<<nm, 0>> : nm \in {"AbsTol", "Grad", "lambda", "p"}}

\* the buffers that are allocated and not released
Live == {b \in DOMAIN heap.st : heap.st[b] = "live"}

\* C6 as stated: on every way out, the exits on a fatal overflow included,
\* every buffer the invocation allocated has been released exactly once.
C6_ReleasedOnEveryWayOut ==
    pc \in {"returned", "exited"} => (Live = {} /\ heap.err = {})

\* C6: no buffer is ever released twice or allocated over; on every return
\* every buffer the invocation allocated has been released; on the exits on a
\* fatal overflow the scratch buffers of getHes, getSearchDir, getRho and
\* PerturbLambda are released and the buffers of CalcConc itself (AT, Hes,
\* their rows, AbsTol, Grad, lambda, p) are still allocated.
C6_ReleasedOnReturn ==
    /\ heap.err = {}
    /\ EntryBufs \subseteq DOMAIN heap.st
    /\ pc = "returned" => /\ Live = {}
                          /\ \A b \in EntryBufs : heap.st[b] = "freed"
    /\ pc = "exited" => Live = EntryBufs
    /\ pc \in {"outer", "inner"} => Live = EntryBufs
    /\ pc = "perturb" => Live = EntryBufs \cup {<<"dummyx", 0>>, <<"perturbed", 0>>}

\* a return after a restart trial that perturbed lambda and iterated, every
\* helper's scratch buffers having been used
C6_Witness ==
    /\ pc = "returned"
    /\ perturbedAt # <<>>
    /\ iters > 0
    /\ \A nm \in {"Avec", "pB", "CholDiag", "HGrad", "pU", "HesCopy", "newx", "dummyx"} :
         heap.st[<<nm, 0>>] = "freed"

\* C7: at every test of the trust-region loop, after the loop and at
\* return, the six RunStats counters are non-negative and sum to iters;
\* getSearchDir's code is one of 1..6.
C7_RunStatsSumToIters ==
    /\ obs.code \in 0..6
    /\ (pc \in {"inner", "returned"} \/ (pc = "outer" /\ nTrial > 0)) =>
           /\ \A k \in 1..6 : RunStats[k] >= 0
           /\ ISumTo(RunStats, 6) = iters

\* a return after a trial whose iterations advanced two different counters
C7_Witness ==
    /\ pc = "returned"
    /\ iters >= 2
    /\ \E k, m \in 1..6 : k # m /\ RunStats[k] > 0 /\ RunStats[m] > 0

\* C8: once assigned at the start of the first trial, the trust radius
\* satisfies 0 < delta <= deltaBar in every state.
C8_DeltaWithinBounds ==
    (inp.deltaBar > 0 /\ "delta" \in assigned) =>
        (delta > 0 /\ delta <= inp.deltaBar * DeltaFrac)

\* delta was doubled and capped at deltaBar
C8_Witness ==
    pc = "inner" /\ "delta" \in assigned /\ delta = inp.deltaBar * DeltaFrac

\* C9: init_genrand is called at most once, and exactly at the start of the
\* trial with nTrial = 1: not in the first trial and not again in later
\* trials, which draw from the same stream.
C9_SeededOnceAtFirstRestart ==
    /\ seededAt = (IF TrialsBegun >= 2 THEN <<1>> ELSE <<>>)
    /\ seededAt = <<>> => (rand_seed = 0 /\ drawsAt = <<>>)

\* the third trial drawing from the stream seeded at the second
C9_Witness ==
    /\ seededAt = <<1>>
    /\ nTrial = 2
    /\ \E k \in 1..Len(drawsAt) : drawsAt[k] = 2

\* C10: PerturbLambda is called exactly once in every restart trial and
\* never in the first, whatever the seed: the trials that called it are
\* 1, 2, ... up to the last trial begun, and no number is drawn in trial 0.
C10_PerturbedIffRestart ==
    /\ perturbedAt = [k \in 1..(TrialsBegun - 1) |-> k]
    /\ \A k \in 1..Len(drawsAt) : drawsAt[k] >= 1

RECURSIVE TrailingRejects(_, _)
\* the number of FALSE entries that end the first n entries of d
TrailingRejects(d, n) ==
    IF n = 0 \/ d[n] THEN 0 ELSE 1 + TrailingRejects(d, n - 1)

\* C11: an iteration accepts its step iff rho > eta; on acceptance lambda
\* becomes lambda + p and nNoStep becomes 0, otherwise lambda is unchanged
\* and nNoStep grows by exactly 1; so at every test of the trust-region
\* loop nNoStep is the number of consecutive rejections since the last
\* acceptance or since the trial started.
C11_AcceptIffRhoAboveEta ==
    /\ [](pc = "inner" =>
             /\ Len(decisions) = iters
             /\ nNoStep = TrailingRejects(decisions, Len(decisions)))
    /\ [][(pc = "inner" /\ InnerCond) =>
             /\ Len(decisions') = Len(decisions) + 1
             /\ decisions'[Len(decisions')] <=> FGt(rho', inp.eta)
             /\ FGt(rho', inp.eta) =>
                    /\ lambda' = [i \in 1..inp.numSS |-> FAdd(lambda[i], p'[i])]
                    /\ nNoStep' = 0
             /\ ~FGt(rho', inp.eta) =>
                    /\ lambda' = lambda
                    /\ nNoStep' = nNoStep + 1]_vars

\* a loop test after an acceptance followed by two rejections
C11_Witness ==
    /\ pc = "inner"
    /\ Len(decisions) >= 3
    /\ decisions[Len(decisions) - 2]
    /\ nNoStep = 2

\* the step p_ ends on the boundary of the trust region of radius delta_:
\* | ||p|| - delta | < NUM_PRECISION
OnBoundary(p_, delta_) ==
    FLt(fabs(FSub(IMul(norm(p_), DeltaFrac), delta_)), NUM_PRECISION * DeltaFrac)

\* C12: every iteration adjusts delta from its rho, whether or not the step
\* is accepted: rho < 0.25 gives delta / 4; otherwise rho > 0.75 with the
\* step on the boundary gives min(2 * delta, deltaBar); in every other case
\* delta is unchanged.
C12_DeltaAdjustedFromRho ==
    [][(pc = "inner" /\ InnerCond) =>
          /\ FLt(rho', FOne \div 4) => delta' = IDiv(delta, 4)
          /\ (~FLt(rho', FOne \div 4) /\ FGt(rho', (3 * FOne) \div 4)
                /\ OnBoundary(p', delta)) =>
                 delta' = min2(IMul(delta, 2), inp.deltaBar * DeltaFrac)
          /\ (~FLt(rho', FOne \div 4)
                /\ ~(FGt(rho', (3 * FOne) \div 4) /\ OnBoundary(p', delta))) =>
                 delta' = delta]_vars

\* a first iteration with rho > 0.75 and its step on the boundary: delta,
\* which started at 0.99 * deltaBar, was doubled and capped at deltaBar
C12_Witness ==
    /\ pc = "inner"
    /\ iters = 1
    /\ inp.eta > 0
    /\ FGt(rho, (3 * FOne) \div 4)
    /\ OnBoundary(p, InitialDelta(inp.deltaBar))
    /\ delta = inp.deltaBar * DeltaFrac

\* C13: getSearchDir decides in the dogleg order: code 1 with p = pB iff
\* the Cholesky decomposition succeeded and ||pB||^2 <= delta^2; otherwise,
\* if ||pU||^2 >= delta^2, p = sqrt(delta^2 / ||pU||^2) * pU with code 2
\* after a success and code 5 after a failure; otherwise, after a failure,
\* p = pU with code 4; codes 3 and 6 only after a success with ||pB||^2 >
\* delta^2 and ||pU||^2 < delta^2.  After a failure of the decomposition a
\* step is still returned and (with eta > 0) the loop goes on.
C13_SearchDirDecisionOrder ==
    [][(pc = "inner" /\ InnerCond) =>
          \E T \in {SearchDirTerms(Grad, getHes(x, inp.A), delta)} :
          \E Newton \in {T.CholSuccess = 1 /\ FLe(T.pB2, T.delta2)} :
          \E Cauchy \in {FGe(T.pU2, T.delta2)} :
             /\ obs'.code \in 1..6
             /\ obs'.code = 1 <=> Newton
             /\ obs'.code = 1 => p' = T.pB
             /\ obs'.code \in {2, 5} <=> (~Newton /\ Cauchy)
             /\ obs'.code \in {2, 5} =>
                    p' = Scale(FSqrt(FDiv(T.delta2, T.pU2)), T.pU)
             /\ obs'.code = 2 => T.CholSuccess = 1
             /\ obs'.code = 5 => T.CholSuccess # 1
             /\ obs'.code = 4 <=> (~Newton /\ ~Cauchy /\ T.CholSuccess # 1)
             /\ obs'.code = 4 => p' = T.pU
             /\ obs'.code \in {3, 6} =>
                    /\ T.CholSuccess = 1
                    /\ FGt(T.pB2, T.delta2)
                    /\ FLt(T.pU2, T.delta2)
             /\ T.CholSuccess # 1 =>
                    /\ obs'.code \in {4, 5}
                    /\ Hes' = getHes(x, inp.A)
                    /\ inp.eta > 0 => (pc' = "inner" /\ exitCode' = "")]_vars

\* a trial in which the decomposition failed in two iterations running, a
\* Cauchy step being returned each time and the loop going on
C13_Witness ==
    /\ pc = "inner"
    /\ inp.eta > 0
    /\ iters >= 2
    /\ obs.code \in {4, 5}
    /\ RunStats[4] + RunStats[5] = iters

(***************************************************************************)
(* getSearchDir on its own: called once on a gradient, a Hessian and a     *)
(* trust radius                                                            *)
(***************************************************************************)
\* the largest entry tried for a one-monomer gradient or Hessian
MaxSearchEntry == 24

\* the trust radii tried
SearchRadii == {1, 2, 4, 7, 8, 16, 32}

\* one monomer (A = <<1, 2>>): Hes = x1 + 4 x2 > 0 and Grad = x1 + 2 x2 - x0
\* below it; two monomers (A = <<1, 0, 1>>, <<0, 1, 1>>): Hes is
\* <<x1 + x3, x3>>, <<x3, x2 + x3>> and Grad = <<x1 + x3 - a, x2 + x3 - b>>
SearchCases ==
    { [Grad |-> <<g>>, Hes |-> <<<<h>>>>, delta |-> d * DeltaFrac] :
        g \in ((0 - MaxSearchEntry)..MaxSearchEntry) \ {0},
        h \in 1..MaxSearchEntry, d \in SearchRadii }
    \cup
    { [Grad |-> <<x1 + x3 - a, x2 + x3 - b>>,
       Hes |-> <<<<x1 + x3, x3>>, <<x3, x2 + x3>>>>, delta |-> d * DeltaFrac] :
        x1 \in {5, 16}, x2 \in {4, 32}, x3 \in {1, 8}, a \in {8, 20},
        b \in {8, 45}, d \in SearchRadii }

\* the state before the call; what getSearchDir does not touch stays as it
\* was at entry of CalcConc
SearchInit ==
    \E c \in SearchCases, i \in Inputs :
      /\ i.numSS = Len(c.Grad)
      /\ i.A \in {<<<<1, 2>>>>, <<<<1, 0, 1>>, <<0, 1, 1>>>>}
      /\ i.MaxIters = 1 /\ i.MaxNoStep = 1 /\ i.MaxTrial = 1 /\ i.seed = 7
      /\ i.x0 \in {<<2 * FOne>>, <<FOne, 4 * FOne>>}
      /\ inp = i
      /\ pc = "getSearchDir"
      /\ Grad = c.Grad
      /\ Hes = c.Hes
      /\ delta = c.delta
      /\ p = Const(i.numSS, 0)
      /\ heap = ApplyMem(EmptyHeap(i.numSS, i.numTotal),
                         EntryMem(i.numSS, i.numTotal), 1)
      /\ AbsTol = [k \in 1..i.numSS |-> FMul(i.tol, i.x0[k])]
      /\ x = Const(i.numTotal, 0)
      /\ lambda = Const(i.numSS, 0)
      /\ iters = 0 /\ nNoStep = 0 /\ nTrial = 0 /\ rho = 0
      /\ RunStats = Const(6, 0)
      /\ rand_seed = 0 /\ FreeEnergy = 0
      /\ PerturbScale = i.PerturbScale
      /\ ret = -1 /\ exitCode = ""
      /\ seededAt = <<>> /\ perturbedAt = <<>> /\ drawsAt = <<>>
      /\ obs = [code |-> 0, overflow |-> FALSE, accepted |-> FALSE]
      /\ assigned = {"lambda", "x", "delta", "nNoStep", "RunStats"}
      /\ innerSteps = 0
      /\ decisions = <<>>

\* the call of line 159 alone: p and the code come back, the scratch
\* buffers are allocated and freed
SearchDirCall ==
    /\ pc = "getSearchDir"
    /\ \E sd \in {getSearchDir(Grad, Hes, delta)} :
         /\ p' = sd.p
         /\ obs' = [obs EXCEPT !.code = sd.code]
         /\ heap' = ApplyMem(heap, sd.mem, 1)
    /\ pc' = "gotSearchDir"
    /\ UNCHANGED <<inp, x, AbsTol, Grad, lambda, Hes, delta, rho, iters, nNoStep,
                   nTrial, RunStats, rand_seed, FreeEnergy, PerturbScale, ret,
                   exitCode, seededAt, perturbedAt, drawsAt, assigned,
                   innerSteps, decisions>>

SpecSearchDir == SearchInit /\ [][SearchDirCall]_vars

\* v lies in [0, 1], the ends included
InUnit(v) == FGe(v, 0) /\ FLe(v, FOne)

\* C14: in the dogleg branch of getSearchDir (decomposition succeeded, pB
\* outside and pU inside the trust region), with x1 = q / a and x2 = c / q:
\* if x2 is in [0, 1] the step is pU + x2 * (pB - pU) with code 3 whatever
\* x1 is; otherwise if x1 is in [0, 1] the step is pU + x1 * (pB - pU) with
\* code 3; otherwise the step is pU with code 6.
C14_DoglegRootSelection ==
    pc = "gotSearchDir" =>
        \E T \in {SearchDirTerms(Grad, Hes, delta)} :
        \E Branch \in {/\ T.CholSuccess = 1
                       /\ ~FLe(T.pB2, T.delta2)
                       /\ ~FGe(T.pU2, T.delta2)} :
           /\ obs.code \in {3, 6} <=> Branch
           /\ (Branch /\ InUnit(T.x2)) =>
                  (obs.code = 3 /\ p = Dogleg(T.pU, T.pB, T.x2))
           /\ (Branch /\ ~InUnit(T.x2) /\ InUnit(T.x1)) =>
                  (obs.code = 3 /\ p = Dogleg(T.pU, T.pB, T.x1))
           /\ (Branch /\ ~InUnit(T.x2) /\ ~InUnit(T.x1)) =>
                  (obs.code = 6 /\ p = T.pU)

\* a call that took the dogleg step of the root x2 = 1, the end of the
\* interval, x1 lying outside
C14_Witness ==
    /\ pc = "gotSearchDir"
    /\ obs.code = 3
    /\ SearchDirTerms(Grad, Hes, delta).x2 = FOne
    /\ ~InUnit(SearchDirTerms(Grad, Hes, delta).x1)
    /\ p = SearchDirTerms(Grad, Hes, delta).pB

\* the row has exactly one non-zero entry
OneNonZero(row) == Cardinality({j \in 1..Len(row) : row[j] # 0}) = 1

\* the row has one entry equal to 1 and all its other entries are 0
UnitRow(row) ==
    \E j \in 1..Len(row) : row[j] = 1 /\ \A k \in 1..Len(row) : k # j => row[k] = 0

\* a step on which getInitialGuess returns: the trial goes from the test of
\* the trial loop, or from PerturbLambda, to the loop or to the exit
GuessReturns == pc \in {"outer", "perturb"} /\ pc' \in {"inner", "exited"}

\* lambda'[i] is the uniform value, perturbed in a restart that perturbs
UniformOrPerturbed(i) ==
    IF pc = "outer"
    THEN lambda'[i] = LambdaVal(inp.G, AT, inp.numTotal)
    ELSE \E u \in [1..inp.numSS -> Uniform] :
            lambda'[i] = Perturbed(lambda, PerturbScale, u)[i]

\* C15 as stated: on every return of getInitialGuess, every monomer whose
\* row of A has exactly one non-zero entry has lambda[i] = log(x0[i]) +
\* G[j*], j* being the column of that entry, and every other monomer has the
\* uniform (possibly perturbed) value.
C15_InertIsOneNonZero ==
    [][GuessReturns =>
          \A i \in 1..inp.numSS :
             IF OneNonZero(inp.A[i])
             THEN lambda'[i] = FAdd(Log(inp.x0[i]),
                                    inp.G[CHOOSE j \in 1..inp.numTotal :
                                             inp.A[i][j] # 0])
             ELSE UniformOrPerturbed(i)]_vars

\* C15: on every return of getInitialGuess, in the first trial and in
\* perturbed restarts alike, every monomer whose row of A is a single 1
\* among zeros (the row sums to 1) has lambda[i] = log(x0[i]) + G[j*], j*
\* being the column of the 1, and every other monomer (a single entry above
\* 1 included) has the uniform, possibly perturbed, value.
C15_InertIsUnitRow ==
    [][GuessReturns =>
          \A i \in 1..inp.numSS :
             IF UnitRow(inp.A[i])
             THEN lambda'[i] = FAdd(Log(inp.x0[i]),
                                    inp.G[CHOOSE j \in 1..inp.numTotal :
                                             inp.A[i][j] = 1])
             ELSE UniformOrPerturbed(i)]_vars

\* a perturbed restart of a system with an inert and a reacting monomer,
\* the inert one at its analytic value and the other one moved off the
\* uniform value
C15_Witness ==
    /\ pc = "inner"
    /\ iters = 0
    /\ nTrial >= 1
    /\ drawsAt # <<>>
    /\ \E i, k \in 1..inp.numSS :
         /\ UnitRow(inp.A[i])
         /\ lambda[i] = FAdd(Log(inp.x0[i]), inp.G[FindNonZero(inp.A[i])])
         /\ ~UnitRow(inp.A[k])
         /\ lambda[k] # LambdaVal(inp.G, AT, inp.numTotal)

\* the uniform initial point of the arguments: every lambda[i] = lambda0
Lambda0 == UniformGuess(inp.G, AT, inp.numSS)

\* what the rounding of the quotient lambda0 can add to or take from logx of
\* complex j: half a unit in the last place for each monomer in the complex
Rounding(j) == (sumint(AT[j]) + 1) \div 2

FairSpec ==
    Spec /\ ([]<>(pc # "perturb") \/ []<><<PerturbLambda>>_vars)

\* C17: PerturbLambda, entered with a lambda whose x does not overflow,
\* returns: after a failed attempt the next one has half the scale and
\* lambda is untouched; whatever is drawn, the attempted lambda'[i] lies
\* within the current scale of lambda[i]; and on return lambda is such an
\* attempt whose x does not overflow (the inert monomers then overridden by
\* getInitialGuess).
C17_PerturbLambdaTerminates ==
    /\ [](pc = "perturb" =>
             /\ PerturbScale >= 0
             /\ FirstOverflow(lambda, inp.G, AT) = 0
             /\ \A u \in [1..inp.numSS -> Uniform], i \in 1..inp.numSS :
                  Abs(Perturbed(lambda, PerturbScale, u)[i] - lambda[i])
                      <= PerturbScale)
    /\ [][(pc = "perturb" /\ pc' = "perturb") =>
             /\ PerturbScale' = IDiv(PerturbScale, 2)
             /\ PerturbScale' < PerturbScale
             /\ lambda' = lambda]_vars
    /\ [][(pc = "perturb" /\ pc' # "perturb") =>
             \E u \in [1..inp.numSS -> Uniform] :
                /\ FirstOverflow(Perturbed(lambda, PerturbScale, u), inp.G, AT) = 0
                /\ lambda' = InertOverride(Perturbed(lambda, PerturbScale, u),
                                           inp.x0, inp.G, inp.A)]_vars
    /\ (pc = "perturb") ~> (pc # "perturb")

\* a restart whose first attempts overflowed and whose third attempt, at a
\* quarter of the scale, gave the lambda of the trial
C17_Witness ==
    /\ pc = "inner"
    /\ iters = 0
    /\ nTrial >= 1
    /\ PerturbScale = IDiv(IDiv(IDiv(inp.PerturbScale, 2), 2), 2)
    /\ PerturbScale > 0
    /\ lambda # Lambda0


\* the loop conditions of a trial that started are being evaluated, or
\* CalcConc has returned
AtLoopTest ==
    \/ pc = "inner"
    \/ pc = "outer" /\ nTrial >= 1
    \/ pc = "returned"

\* C18: at every evaluation of the inner-loop and outer-loop conditions after
\* a trial has started, and at return, x is getx of the current lambda,
\* evaluated without overflow, and Grad is getGrad of that x.  An iteration
\* computes Hes from the unmodified x and p from the unmodified Grad and
\* delta, leaves lambda at lambda or lambda + p, and a rejected step leaves
\* lambda, x and Grad as they were: getSearchDir and getRho modify none of
\* lambda, x, Grad, Hes.
C18_XAndGradFollowLambda ==
    /\ [](AtLoopTest =>
            /\ getx(x, lambda, inp.G, AT) = [ok |-> 1, x |-> x]
            /\ Grad = getGrad(inp.x0, x, inp.A))
    /\ [][(pc = "inner" /\ innerSteps' = innerSteps + 1) =>
            \E H \in {getHes(x, inp.A)} :
            \E sd \in {getSearchDir(Grad, H, delta)} :
              /\ Hes' = H
              /\ p' = sd.p
              /\ \/ lambda' = lambda
                 \/ lambda' = [i \in 1..inp.numSS |-> FAdd(lambda[i], sd.p[i])]
              /\ (~obs'.accepted) =>
                    /\ lambda' = lambda
                    /\ x' = x
                    /\ pc' = "inner"
                    /\ Grad' = Grad]_vars

\* CalcConc returned without convergence after a last trial that moved
\* lambda and then had a step rejected
C18_Witness ==
    /\ pc = "returned" /\ ret = 0 /\ ~Converged
    /\ Len(decisions) >= 2
    /\ decisions[1] /\ ~decisions[Len(decisions)]
    /\ lambda # Lambda0


\* C19: with eta > 0 the exit on overflow inside the trust-region loop is
\* unreachable.  An iteration that begins with getx(lambda) overflow-free
\* accepts a step only if getRho evaluated lambda + p without overflow, and
\* otherwise leaves lambda alone, so the recomputation of x does not
\* overflow and the loop goes on; the only steps into the ERR_OVERFLOW exit
\* are those of the evaluation right after the initial guess.
C19_InnerOverflowExitUnreachable ==
    /\ [][(pc = "inner" /\ innerSteps' = innerSteps + 1 /\ inp.eta > 0
             /\ FirstOverflow(lambda, inp.G, AT) = 0) =>
            /\ obs'.accepted => ~obs'.overflow
            /\ obs'.overflow => lambda' = lambda
            /\ FirstOverflow(lambda', inp.G, AT) = 0
            /\ pc' = "inner"
            /\ exitCode' = ""]_vars
    /\ [][(pc' = "exited" /\ pc # "exited" /\ inp.eta > 0) =>
            /\ pc \in {"outer", "perturb"}
            /\ innerSteps' = innerSteps]_vars

\* with eta > 0, CalcConc returned although the trial point of the last of
\* several iterations overflowed
C19_Witness ==
    /\ pc = "returned"
    /\ inp.eta > 0
    /\ innerSteps >= 2
    /\ obs.overflow
    /\ ~obs.accepted
    /\ exitCode = ""

====
